---------------------------- MODULE Spec2Model ----------------------------
(***************************************************************************)
(* RenImg ("Photon"): batch image renamer.                                 *)
(*                                                                         *)
(* The module models                                                       *)
(*   - ImageRenamer.generatePreview / applyPattern (the Planner), both as  *)
(*     a pure operator and as the loop it is, one iteration per step;      *)
(*   - ImageRenamer.executeRename and App.handleRename (the Executor), one *)
(*     step per await;                                                     *)
(*   - the React state of App (files, processedFiles, dirHandle,           *)
(*     isProcessing, progress, config) with the refreshPreview effect.     *)
(*                                                                         *)
(* Strings of the program are sequences of one-character strings, so that  *)
(* concatenation, lower-casing, padding and the token regexes are computed *)
(* as the code computes them.                                              *)
(***************************************************************************)
EXTENDS Integers, Sequences, FiniteSets, TLC

(***************************************************************************)
(* Bounds of the model.                                                    *)
(***************************************************************************)
\* longest entry list handed to the Planner as a pure function
MaxFiles == 3

(***************************************************************************)
(* State.                                                                  *)
(***************************************************************************)
VARIABLES
    \* the React state of App
    files,           \* ImageFile[]: the scanned entries
    processedFiles,  \* ProcessedFile[]: the plan shown and executed
    dirHandle,       \* the storage root handle, or null
    isProcessing,
    progress,        \* a percentage, kept exact as [num, den]
    config,          \* RenameConfig
    effectDue,       \* a commit changed files, config or isProcessing: the
                     \* refreshPreview effect has still to run
    \* the storage behind dirHandle
    disk,            \* file name -> content, for the files of the directory
    handles,         \* entry id -> the file name its FileSystemFileHandle is bound to
    hasMove,         \* the browser offers FileSystemFileHandle.move
    \* the run of handleRename in flight
    pc,              \* "idle", or the await the run stands at
    i,               \* the loop index (0-based)
    queue,           \* [...processedFiles] as captured at the start
    runConfig,       \* config as captured by the handler's closure
    fileContent,     \* the local of executeRename
    dryTimer,        \* the 500 ms timeout of a dry run is pending
    \* what an observer of the session records
    ops,             \* storage operations issued by the run: <<index, operation>>
    outcome,         \* index -> status the run recorded for it
    ended,           \* "none" | "real" | "dry": the run that ended last, until
                     \* the next user event
    atStart,         \* files, config and plan when the last run was triggered
    scanOutcome,     \* how the last scan asked for went: "none" before the first
    nRuns, nEdits, nScans, nFails,
    \* one invocation of generatePreview, as the loop it is
    pFiles,     \* its argument files
    pConfig,    \* its argument config
    loc,        \* its locals: counter, usedNames, result
    pos,        \* entries of pFiles the loop has consumed
    ppc,        \* "call" | "loop" | "returned"
    ret,        \* the value it returned
    ref,        \* an earlier invocation, kept to compare with:
                \* [kept, files, config, plan]
    between     \* other invocations have run since ref was kept

reactVars == <<files, processedFiles, dirHandle, isProcessing, progress, config, effectDue>>
storageVars == <<disk, handles, hasMove>>
runVars == <<pc, i, queue, runConfig, fileContent, dryTimer>>
observerVars == <<ops, outcome, ended, atStart, scanOutcome, nRuns, nEdits, nScans, nFails>>
appVars == <<reactVars, storageVars, runVars, observerVars>>

planVars == <<pFiles, pConfig, loc, pos, ppc, ret, ref, between>>

vars == <<appVars, planVars>>

(***************************************************************************)
(* Strings.                                                                *)
(***************************************************************************)
DigitChars == <<"0", "1", "2", "3", "4", "5", "6", "7", "8", "9">>

DigitSet == { DigitChars[k] : k \in 1..10 }

IsDigit(c) == c \in DigitSet

Letters == <<"a", "b", "c", "d", "e", "f", "g", "h", "i", "j", "k", "l", "m",
             "n", "o", "p", "q", "r", "s", "t", "u", "v", "w", "x", "y", "z">>

UpperLetters == <<"A", "B", "C", "D", "E", "F", "G", "H", "I", "J", "K", "L", "M",
                  "N", "O", "P", "Q", "R", "S", "T", "U", "V", "W", "X", "Y", "Z">>

LowerOf ==
    [c \in { UpperLetters[k] : k \in 1..26 } |->
        Letters[CHOOSE k \in 1..26 : UpperLetters[k] = c]]

\* String.prototype.toLowerCase on one character
LowerChar(c) == IF c \in DOMAIN LowerOf THEN LowerOf[c] ELSE c

toLowerCase(s) == [k \in 1..Len(s) |-> LowerChar(s[k])]

RECURSIVE NatToString(_)
NatToString(n) ==
    IF n < 10 THEN <<DigitChars[n + 1]>>
    ELSE NatToString(n \div 10) \o <<DigitChars[(n % 10) + 1]>>

\* Number.prototype.toString() of an integer
toString(n) == IF n < 0 THEN <<"-">> \o NatToString(-n) ELSE NatToString(n)

\* String.prototype.padStart(len, '0')
padStart(s, len) ==
    IF Len(s) >= len THEN s
    ELSE [k \in 1..(len - Len(s)) |-> "0"] \o s

\* does tok occur in s at position p
StartsAt(s, p, tok) ==
    /\ p + Len(tok) - 1 <= Len(s)
    /\ \A k \in 1..Len(tok) : s[p + k - 1] = tok[k]

Drop(s, n) == SubSeq(s, n + 1, Len(s))

\* String.prototype.replace(/tok/g, rep): left to right, the replacement is
\* not scanned again
RECURSIVE ReplaceAll(_, _, _)
ReplaceAll(s, tok, rep) ==
    IF s = <<>> THEN <<>>
    ELSE IF StartsAt(s, 1, tok)
         THEN rep \o ReplaceAll(Drop(s, Len(tok)), tok, rep)
         ELSE <<s[1]>> \o ReplaceAll(Drop(s, 1), tok, rep)

TokName == <<"{", "n", "a", "m", "e", "}">>
TokDate == <<"{", "d", "a", "t", "e", "}">>
TokNumOpen == <<"{", "n", "u", "m">>

\* number of digit characters of s from position p on
RECURSIVE DigitRun(_, _)
DigitRun(s, p) ==
    IF p <= Len(s) /\ IsDigit(s[p]) THEN 1 + DigitRun(s, p + 1) ELSE 0

\* the match of /{num(?::(\d+))?}/ at the head of s: its length (0: none) and
\* the length of the captured padding string (0: not captured)
NumMatch(s) ==
    IF ~StartsAt(s, 1, TokNumOpen) THEN [len |-> 0, pad |-> 0]
    ELSE IF StartsAt(s, 5, <<"}">>) THEN [len |-> 5, pad |-> 0]
    ELSE LET digits == DigitRun(s, 6)
         IN  IF StartsAt(s, 5, <<":">>) /\ digits >= 1
                   /\ StartsAt(s, 6 + digits, <<"}">>)
             THEN [len |-> 6 + digits, pad |-> digits]
             ELSE [len |-> 0, pad |-> 0]

\* the replacer callback of the {num} regex
RenderNum(index, pad) ==
    IF pad > 0 THEN padStart(toString(index), pad) ELSE toString(index)

RECURSIVE ReplaceNum(_, _)
ReplaceNum(s, index) ==
    IF s = <<>> THEN <<>>
    ELSE LET m == NumMatch(s)
         IN  IF m.len > 0
             THEN RenderNum(index, m.pad) \o ReplaceNum(Drop(s, m.len), index)
             ELSE <<s[1]>> \o ReplaceNum(Drop(s, 1), index)

(***************************************************************************)
(* new Date(ms).toISOString().split('T')[0]: the UTC civil date of a       *)
(* timestamp (ms >= 0), as YYYY-MM-DD.                                     *)
(***************************************************************************)
MsPerDay == 86400000

CivilFromDays(days) ==
    LET z   == days + 719468
        era == z \div 146097
        doe == z - era * 146097
        yoe == (doe - (doe \div 1460) + (doe \div 36524) - (doe \div 146096)) \div 365
        doy == doe - (365 * yoe + (yoe \div 4) - (yoe \div 100))
        mp  == (5 * doy + 2) \div 153
        d   == doy - ((153 * mp + 2) \div 5) + 1
        m   == IF mp < 10 THEN mp + 3 ELSE mp - 9
        y   == yoe + era * 400 + (IF m <= 2 THEN 1 ELSE 0)
    IN  [year |-> y, month |-> m, day |-> d]

dateStr(lastModified) ==
    LET c == CivilFromDays(lastModified \div MsPerDay)
    IN  padStart(toString(c.year), 4) \o <<"-">>
          \o padStart(toString(c.month), 2) \o <<"-">>
          \o padStart(toString(c.day), 2)


(***************************************************************************)
(* types.ts: FileStatus, and the values of ProcessedFile.errorMessage.     *)
(***************************************************************************)
PENDING == "PENDING"
SUCCESS == "SUCCESS"
ERROR   == "ERROR"
SKIPPED == "SKIPPED"
FileStatus == {PENDING, SUCCESS, ERROR, SKIPPED}

undefined == "undefined"
ConflictMessage == "Conflict: Filename already exists in destination"
FailedMessage   == "Write/Move failed"

(***************************************************************************)
(* The Planner: ImageRenamer.applyPattern and generatePreview.             *)
(***************************************************************************)
applyPattern(f, cfg, index) ==
    LET n1 == ReplaceAll(cfg.pattern, TokName, f.originalName)
        n2 == ReplaceAll(n1, TokDate, dateStr(f.lastModified))
        n3 == ReplaceNum(n2, index)
    IN  cfg.prefix \o n3 \o cfg.suffix

\* generatePreview with its conflict set held over from the invocation before
\* (a field of the renamer instead of a local)
PlanLocalsKeepUsedNames(cfg) ==
    [counter |-> cfg.startNumber, usedNames |-> loc.usedNames, result |-> <<>>]

\* the locals of generatePreview before its loop
PlanLocals(cfg) ==
    [counter |-> cfg.startNumber, usedNames |-> {}, result |-> <<>>]

\* the ProcessedFile pushed for file f: {...file, newName, status, errorMessage}
Processed(f, newName, status, errorMessage) ==
    [id            |-> f.id,
     originalName  |-> f.originalName,
     extension     |-> f.extension,
     path          |-> f.path,
     lastModified  |-> f.lastModified,
     newName       |-> newName,
     status        |-> status,
     errorMessage  |-> errorMessage]

\* the planned entry of one iteration, given what the iteration decided
Pushed(st, f, newName, conflict) ==
    Append(st.result,
           Processed(f, newName,
                     IF conflict THEN ERROR ELSE PENDING,
                     IF conflict THEN ConflictMessage ELSE undefined))

\* the iteration with counter++ only on the path without a conflict
PlanIterationCounterOnSuccess(st, f, cfg) ==
    LET newName  == applyPattern(f, cfg, st.counter)
        key      == toLowerCase(newName \o f.extension)
        conflict == key \in st.usedNames /\ ~cfg.overwrite
    IN  [counter   |-> IF conflict THEN st.counter ELSE st.counter + 1,
         usedNames |-> st.usedNames \cup {key},
         result    |-> Pushed(st, f, newName, conflict)]

\* the iteration without the test of config.overwrite
PlanIterationIgnoreOverwrite(st, f, cfg) ==
    LET newName  == applyPattern(f, cfg, st.counter)
        key      == toLowerCase(newName \o f.extension)
        conflict == key \in st.usedNames
    IN  [counter   |-> st.counter + 1,
         usedNames |-> st.usedNames \cup {key},
         result    |-> Pushed(st, f, newName, conflict)]

\* the iteration adding the name as written to the set it looks up lower-cased
PlanIterationAddAsWritten(st, f, cfg) ==
    LET newName  == applyPattern(f, cfg, st.counter)
        key      == toLowerCase(newName \o f.extension)
        conflict == key \in st.usedNames /\ ~cfg.overwrite
    IN  [counter   |-> st.counter + 1,
         usedNames |-> st.usedNames \cup {newName \o f.extension},
         result    |-> Pushed(st, f, newName, conflict)]

\* the iteration with the key taken from newName alone, extension left out
PlanIterationKeyWithoutExtension(st, f, cfg) ==
    LET newName  == applyPattern(f, cfg, st.counter)
        key      == toLowerCase(newName)
        conflict == key \in st.usedNames /\ ~cfg.overwrite
    IN  [counter   |-> st.counter + 1,
         usedNames |-> st.usedNames \cup {key},
         result    |-> Pushed(st, f, newName, conflict)]

\* the iteration leaving a conflicting entry out of the result
PlanIterationDropConflict(st, f, cfg) ==
    LET newName  == applyPattern(f, cfg, st.counter)
        key      == toLowerCase(newName \o f.extension)
        conflict == key \in st.usedNames /\ ~cfg.overwrite
    IN  [counter   |-> st.counter + 1,
         usedNames |-> st.usedNames \cup {key},
         result    |-> IF conflict THEN st.result ELSE Pushed(st, f, newName, conflict)]

\* one iteration of the loop of generatePreview
PlanIteration(st, f, cfg) ==
    LET newName     == applyPattern(f, cfg, st.counter)
        fullNewName == newName \o f.extension
        key         == toLowerCase(fullNewName)
        conflict    == key \in st.usedNames /\ ~cfg.overwrite
    IN  [counter   |-> st.counter + 1,
         usedNames |-> st.usedNames \cup {key},
         result    |-> Pushed(st, f, newName, conflict)]

RECURSIVE PlanLoop(_, _, _)
PlanLoop(st, fs, cfg) ==
    IF fs = <<>> THEN st
    ELSE PlanLoop(PlanIteration(st, Head(fs), cfg), Tail(fs), cfg)

generatePreview(fs, cfg) == PlanLoop(PlanLocals(cfg), fs, cfg).result

(***************************************************************************)
(* The Scanner: how ImageScanner.scanDirectory turns one directory child   *)
(* into an ImageFile.                                                      *)
(***************************************************************************)
JPG == <<".", "j", "p", "g">>
PNG == <<".", "p", "n", "g">>
allowedExtensions ==
    { JPG, <<".", "j", "p", "e", "g">>, PNG, <<".", "w", "e", "b", "p">>,
      <<".", "g", "i", "f">>, <<".", "s", "v", "g">>, <<".", "t", "i", "f", "f">>,
      <<".", "b", "m", "p">> }

\* String.prototype.lastIndexOf('.'), 1-based; 0 when there is none
RECURSIVE lastIndexOfDot(_)
lastIndexOfDot(s) ==
    IF s = <<>> THEN 0
    ELSE IF s[Len(s)] = "." THEN Len(s)
    ELSE lastIndexOfDot(SubSeq(s, 1, Len(s) - 1))

\* the ImageFile pushed for the child named fileName; id stands for the random
\* id and also names the entry's FileSystemFileHandle
ImageFileOf(id, fileName, lastModified) ==
    LET dot == lastIndexOfDot(fileName)
    IN  [id           |-> id,
         originalName |-> SubSeq(fileName, 1, dot - 1),
         extension    |-> toLowerCase(SubSeq(fileName, dot, Len(fileName))),
         path         |-> fileName,
         lastModified |-> lastModified]

\* is the child retained by the scan
IsImageName(fileName) ==
    /\ lastIndexOfDot(fileName) # 0
    /\ toLowerCase(SubSeq(fileName, lastIndexOfDot(fileName), Len(fileName)))
           \in allowedExtensions

(***************************************************************************)
(* Inputs of the Planner as a pure function.                               *)
(***************************************************************************)
PlanEntries ==
    { ImageFileOf(1, <<"a">> \o JPG, 0),
      ImageFileOf(2, <<"A">> \o JPG, MsPerDay),
      ImageFileOf(3, <<"a">> \o PNG, 0),
      ImageFileOf(4, <<"a", "-">> \o JPG, MsPerDay) }

\* the lists of distinct entries of length n
RECURSIVE ListsOf(_, _)
ListsOf(S, n) ==
    IF n = 0 THEN {<<>>}
    ELSE UNION { { Append(l, e) : e \in { x \in S : \A k \in 1..Len(l) : l[k] # x } }
                 : l \in ListsOf(S, n - 1) }

EntryLists == UNION { ListsOf(PlanEntries, n) : n \in 0..MaxFiles }

PatDefault == <<"i", "m", "a", "g", "e", "_", "{", "n", "u", "m", ":", "0", "0", "3", "}">>
PatConst   == <<"i", "m", "g">>
PatName    == <<"{", "n", "a", "m", "e", "}">>
PatNameNum == <<"{", "n", "a", "m", "e", "}", "{", "n", "u", "m", "}">>
PatDate    == <<"{", "d", "a", "t", "e", "}">>
Patterns   == {PatDefault, PatConst, PatName, PatNameNum, PatDate}

StartNumbers == {-1, 1, 9}

\* the initial RenameConfig of App
DefaultConfig ==
    [pattern       |-> PatDefault,
     startNumber   |-> 1,
     recursive     |-> FALSE,
     dryRun        |-> FALSE,
     overwrite     |-> FALSE,
     prefix        |-> <<>>,
     suffix        |-> <<>>,
     enableResize  |-> FALSE,
     resizeWidth   |-> 1920,
     resizeQuality |-> 85,
     keepOriginals |-> FALSE]

PlanConfigs ==
    { [DefaultConfig EXCEPT !.pattern = p, !.startNumber = n, !.overwrite = o,
                            !.prefix = pre, !.suffix = suf] :
        p \in Patterns, n \in StartNumbers, o \in BOOLEAN,
        pre \in {<<>>, <<"P">>}, suf \in {<<>>, <<"s">>} }

\* invocations made between two invocations that are compared
OtherInputs ==
    { [files  |-> <<ImageFileOf(1, <<"a">> \o JPG, 0), ImageFileOf(2, <<"A">> \o JPG, MsPerDay)>>,
       config |-> [DefaultConfig EXCEPT !.pattern = PatName, !.startNumber = 9]],
      [files  |-> <<ImageFileOf(3, <<"a">> \o PNG, 0)>>,
       config |-> [DefaultConfig EXCEPT !.pattern = PatConst, !.overwrite = TRUE]] }

\* no invocation kept yet
NoRef == [kept |-> FALSE, files |-> <<>>, config |-> DefaultConfig, plan |-> <<>>]

(***************************************************************************)
(* String.prototype.localeCompare, for the sort of the scan: letters are   *)
(* compared without their case first, punctuation before digits before     *)
(* letters, and case (lower first) only breaks a tie.                      *)
(***************************************************************************)
PrimaryWeightOf ==
    [c \in {"-", "_"} \cup DigitSet \cup { Letters[k] : k \in 1..26 } |->
        IF c = "-" THEN 1
        ELSE IF c = "_" THEN 2
        ELSE IF c \in DigitSet THEN 2 + (CHOOSE k \in 1..10 : DigitChars[k] = c)
        ELSE 12 + (CHOOSE k \in 1..26 : Letters[k] = c)]

PrimaryWeight(c) ==
    IF LowerChar(c) \in DOMAIN PrimaryWeightOf THEN PrimaryWeightOf[LowerChar(c)] ELSE 0

TertiaryWeight(c) == IF c \in DOMAIN LowerOf THEN 1 ELSE 0

PrimaryKey(a) == [k \in 1..Len(a) |-> PrimaryWeight(a[k])]

TertiaryKey(a) == [k \in 1..Len(a) |-> TertiaryWeight(a[k])]

\* lexicographic comparison of two sequences of weights: -1, 0 or 1
RECURSIVE CompareKeys(_, _)
CompareKeys(a, b) ==
    IF a = <<>> /\ b = <<>> THEN 0
    ELSE IF a = <<>> THEN -1
    ELSE IF b = <<>> THEN 1
    ELSE IF a[1] < b[1] THEN -1
    ELSE IF a[1] > b[1] THEN 1
    ELSE CompareKeys(Tail(a), Tail(b))

localeCompare(a, b) ==
    LET primary == CompareKeys(PrimaryKey(a), PrimaryKey(b))
    IN  IF primary # 0 THEN primary
        ELSE CompareKeys(TertiaryKey(a), TertiaryKey(b))

(***************************************************************************)
(* Storage: the directory behind dirHandle.                                *)
(***************************************************************************)
\* the content of a file: whose bytes, the image's width, and whether the
\* bytes are a re-encoding made by resizeImage
Content(src, width) ==
    [src |-> src, width |-> width, resized |-> FALSE, lastModified |-> 0]

\* the file getFileHandle(name, {create: true}) creates
EmptyFile == [src |-> "empty", width |-> 0, resized |-> FALSE, lastModified |-> 2 * MsPerDay]

NoContent == [src |-> "none", width |-> 0, resized |-> FALSE, lastModified |-> 0]

\* the bytes of c written into a new file
Written(c) == [c EXCEPT !.lastModified = 2 * MsPerDay]

FileName(name, ext) == name \o ext

\* the marker an earlier run with keepOriginals and enableResize left in a name
ResizedMarker == <<"_", "r", "e", "s", "i", "z", "e", "d">>

\* the name the default pattern and the marker gave the third entry of an
\* earlier run
EarlierOutput == <<"i", "m", "a", "g", "e", "_", "0", "0", "3">> \o ResizedMarker

\* the name the default pattern gave the first entry of an earlier run
EarlierFirst == <<"i", "m", "a", "g", "e", "_", "0", "0", "1">>

\* the directory the session opens: three images, narrower than, as wide as
\* and wider than the default resizeWidth, the last two left by earlier runs
\* (one plain, one with keepOriginals and enableResize), and a file that is
\* none
InitialDisk ==
    (FileName(<<"a">>, JPG) :> Content("A", 1000))
      @@ (FileName(EarlierFirst, JPG) :> Content("B", 1920))
      @@ (FileName(EarlierOutput, PNG) :> Content("I", 3000))
      @@ (<<"n", ".", "t", "x", "t">> :> Content("N", 0))

Remove(d, name) == [n \in (DOMAIN d) \ {name} |-> d[n]]

Put(d, name, c) == [n \in (DOMAIN d) \cup {name} |-> IF n = name THEN c ELSE d[n]]

null == "null"
RootDir == "dir"

(***************************************************************************)
(* ImageScanner.scanDirectory on the directory as it is: the retained      *)
(* children, sorted by originalName (a stable sort: children whose names   *)
(* compare equal stay in the order the directory listed them, which is any *)
(* order).                                                                 *)
(***************************************************************************)
ScannedEntries(d, scanNo) ==
    { ImageFileOf(<<scanNo, n>>, n, d[n].lastModified) : n \in { m \in DOMAIN d : IsImageName(m) } }

ScanResults(d, scanNo) ==
    LET entries == ScannedEntries(d, scanNo)
        n == Cardinality(entries)
    IN  { l \in ListsOf(entries, n) :
            \A x \in 1..(n - 1) :
               localeCompare(l[x].originalName, l[x + 1].originalName) <= 0 }

(***************************************************************************)
(* App: the state after construction.                                      *)
(***************************************************************************)
\* setProgress(0), and ((i + 1) / total) * 100 kept exact
NoProgress == [num |-> 0, den |-> 1]
ProgressAfter(index, total) == [num |-> (index + 1) * 100, den |-> total]

NoRun == [files |-> <<>>, config |-> DefaultConfig, plan |-> <<>>, disk |-> InitialDisk]

AppInit ==
    /\ files = <<>>
    /\ processedFiles = <<>>
    /\ dirHandle = null
    /\ isProcessing = FALSE
    /\ progress = NoProgress
    /\ config = DefaultConfig
    /\ effectDue = FALSE
    /\ disk = InitialDisk
    /\ handles = <<>>
    /\ hasMove \in BOOLEAN
    /\ pc = "idle"
    /\ i = 0
    /\ queue = <<>>
    /\ runConfig = DefaultConfig
    /\ fileContent = NoContent
    /\ dryTimer = FALSE
    /\ ops = <<>>
    /\ outcome = <<>>
    /\ ended = "none"
    /\ atStart = NoRun
    /\ scanOutcome = "none"
    /\ nRuns = 0
    /\ nEdits = 0
    /\ nScans = 0
    /\ nFails = 0

\* the App with no folder opened and nothing running (the Planner is then
\* studied on its own)
AppAtRest ==
    /\ files = <<>>
    /\ processedFiles = <<>>
    /\ dirHandle = null
    /\ isProcessing = FALSE
    /\ progress = NoProgress
    /\ config = DefaultConfig
    /\ effectDue = FALSE
    /\ disk = InitialDisk
    /\ handles = <<>>
    /\ hasMove = FALSE
    /\ pc = "idle"
    /\ i = 0
    /\ queue = <<>>
    /\ runConfig = DefaultConfig
    /\ fileContent = NoContent
    /\ dryTimer = FALSE
    /\ ops = <<>>
    /\ outcome = <<>>
    /\ ended = "none"
    /\ atStart = NoRun
    /\ scanOutcome = "none"
    /\ nRuns = 0
    /\ nEdits = 0
    /\ nScans = 0
    /\ nFails = 0

(***************************************************************************)
(* The configuration panel: each input event replaces config by a copy     *)
(* with one field changed.  The keepOriginals checkbox is rendered only    *)
(* while enableResize is checked.                                          *)
(***************************************************************************)
PanelPatterns == {PatDefault, PatName, PatConst}

EditedConfigs(cfg) ==
    { [cfg EXCEPT !.pattern = p] : p \in PanelPatterns \ {cfg.pattern} }
      \cup { [cfg EXCEPT !.dryRun = ~cfg.dryRun],
             [cfg EXCEPT !.overwrite = ~cfg.overwrite],
             [cfg EXCEPT !.enableResize = ~cfg.enableResize] }
      \cup (IF cfg.enableResize
            THEN { [cfg EXCEPT !.keepOriginals = ~cfg.keepOriginals] }
            ELSE {})

(***************************************************************************)
(* The state updaters of handleRename:                                     *)
(*   next = [...prev]; next[i] = { ...next[i], status[, errorMessage] }    *)
(* applied to the list as it is when the update runs.  An index beyond the *)
(* list's end makes the slots in between undefined, and spreading an       *)
(* undefined slot yields an object with no other field.                    *)
(***************************************************************************)
NoId == <<0, <<>>>>
Missing == <<undefined>>

\* { ...undefined, status, errorMessage }
Sparse(status, errorMessage) ==
    [id            |-> NoId,
     originalName  |-> Missing,
     extension     |-> Missing,
     path          |-> Missing,
     lastModified  |-> -1,
     newName       |-> Missing,
     status        |-> status,
     errorMessage  |-> errorMessage]

\* a slot never assigned
Hole == Sparse(undefined, undefined)

Max(a, b) == IF a >= b THEN a ELSE b

SetSuccess(prev, index) ==
    [k \in 1..Max(Len(prev), index + 1) |->
        IF k = index + 1
        THEN IF k <= Len(prev) THEN [prev[k] EXCEPT !.status = SUCCESS]
                               ELSE Sparse(SUCCESS, undefined)
        ELSE IF k <= Len(prev) THEN prev[k] ELSE Hole]

SetError(prev, index) ==
    [k \in 1..Max(Len(prev), index + 1) |->
        IF k = index + 1
        THEN IF k <= Len(prev)
             THEN [prev[k] EXCEPT !.status = ERROR, !.errorMessage = FailedMessage]
             ELSE Sparse(ERROR, FailedMessage)
        ELSE IF k <= Len(prev) THEN prev[k] ELSE Hole]

(***************************************************************************)
(* executeRename's names.                                                  *)
(***************************************************************************)
fullNewName(f) == f.newName \o f.extension

fullOldName(f) == f.originalName \o f.extension

ResizedSuffix == ResizedMarker

targetFileName(f, cfg) ==
    IF cfg.keepOriginals /\ cfg.enableResize
    THEN f.newName \o ResizedSuffix \o f.extension
    ELSE fullNewName(f)

\* the early return: nothing to rename and nothing to resize
IsNoOp(f, cfg) == fullNewName(f) = fullOldName(f) /\ ~cfg.enableResize

\* the experimental move() is taken instead of copy and delete
\* the fast path taken whether or not the handle offers move
UsesMoveUnchecked(cfg) == ~cfg.enableResize /\ ~cfg.keepOriginals

UsesMove(cfg) == hasMove /\ ~cfg.enableResize /\ ~cfg.keepOriginals

\* the bytes resizeImage produces from c
Resized(c, width) == [c EXCEPT !.width = width, !.resized = TRUE]

(***************************************************************************)
(* SpecPlan: generatePreview invoked again and again.                      *)
(***************************************************************************)
PlanInit ==
    /\ AppAtRest
    /\ pFiles \in EntryLists
    /\ pConfig \in PlanConfigs
    /\ loc = [counter |-> 0, usedNames |-> {}, result |-> <<>>]
    /\ pos = 0
    /\ ppc = "call"
    /\ ret = <<>>
    /\ ref = NoRef
    /\ between = FALSE

\* const result = []; let counter = config.startNumber; const usedNames = new Set()
PlanEnter ==
    /\ ppc = "call"
    /\ loc' = PlanLocals(pConfig)
    /\ pos' = 0
    /\ ppc' = "loop"
    /\ UNCHANGED <<pFiles, pConfig, ret, ref, between>>
    /\ UNCHANGED appVars

\* for (const file of files) { ... counter++ }
PlanIterate ==
    /\ ppc = "loop"
    /\ pos < Len(pFiles)
    /\ loc' = PlanIteration(loc, pFiles[pos + 1], pConfig)
    /\ pos' = pos + 1
    /\ UNCHANGED <<pFiles, pConfig, ppc, ret, ref, between>>
    /\ UNCHANGED appVars

\* return result
PlanReturn ==
    /\ ppc = "loop"
    /\ pos = Len(pFiles)
    /\ ppc' = "returned"
    /\ ret' = loc.result
    /\ UNCHANGED <<pFiles, pConfig, loc, pos, ref, between>>
    /\ UNCHANGED appVars

\* the caller keeps what this invocation returned
PlanKeep ==
    /\ ppc = "returned"
    /\ ~ref.kept
    /\ ref' = [kept |-> TRUE, files |-> pFiles, config |-> pConfig, plan |-> ret]
    /\ between' = FALSE
    /\ UNCHANGED <<pFiles, pConfig, loc, pos, ppc, ret>>
    /\ UNCHANGED appVars

\* the next invocation: with the arguments of the kept one, or with others
PlanInvoke ==
    /\ ppc = "returned"
    /\ \E in \in OtherInputs \cup (IF ~ref.kept THEN {}
                                   ELSE {[files |-> ref.files, config |-> ref.config]}) :
         /\ pFiles' = in.files
         /\ pConfig' = in.config
         /\ between' = (IF ref.kept /\ (in.files # ref.files \/ in.config # ref.config)
                        THEN TRUE ELSE between)
    /\ ppc' = "call"
    /\ UNCHANGED <<loc, pos, ret, ref>>
    /\ UNCHANGED appVars

PlanNext == PlanEnter \/ PlanIterate \/ PlanReturn \/ PlanKeep \/ PlanInvoke

SpecPlan == PlanInit /\ [][PlanNext]_vars

(***************************************************************************)
(* Claims about the Planner (checked under SpecPlan).                      *)
(***************************************************************************)
\* the case-insensitive target key of a planned entry
TargetKey(e) == toLowerCase(e.newName \o e.extension)

\* the planned entries so far of the running invocation
Planned == loc.result

\* C1: the number rendered for the {num} / {num:<k>} token of the entry at
\* 0-based position x is startNumber + x, whatever the conflict status of any
\* entry: the counter is startNumber + (entries consumed) at every point of the
\* loop, and every newName is the pattern expanded with startNumber + x.
C1_NumIsStartPlusIndex ==
    /\ ppc = "loop" => loc.counter = pConfig.startNumber + pos
    /\ ppc # "call" =>
         \A x \in 1..Len(Planned) :
            LET n == pConfig.startNumber + (x - 1)
                e == Planned[x]
            IN  /\ e.newName = applyPattern(pFiles[x], pConfig, n)
                /\ pConfig.pattern = PatNameNum =>
                      e.newName = pConfig.prefix \o pFiles[x].originalName
                                    \o toString(n) \o pConfig.suffix
                /\ pConfig.pattern = PatDefault =>
                      e.newName = pConfig.prefix \o <<"i", "m", "a", "g", "e", "_">>
                                    \o padStart(toString(n), 3) \o pConfig.suffix

\* C1 witness: a returned plan of three entries whose third one is a conflict
\* although {num} is in the pattern ("a" + "-1" and "a-" + "1"), and which
\* carries the number startNumber + 2 = 1
C1_Witness ==
    /\ ppc = "returned"
    /\ pConfig.pattern = PatNameNum
    /\ pConfig.startNumber = -1
    /\ pConfig.prefix = <<>> /\ pConfig.suffix = <<>>
    /\ Len(ret) = 3
    /\ ret[1].status = PENDING
    /\ ret[3].status = ERROR
    /\ ret[3].newName = <<"a", "-", "1">>
    /\ ret[1].newName = <<"a", "-", "1">>

\* C2: the entry at position x is Error with the conflict message iff overwrite
\* is false and an earlier entry has the same case-insensitive target key;
\* otherwise it is Pending without a message.
C2_ErrorIffEarlierDuplicate ==
    ppc # "call" =>
      \A x \in 1..Len(Planned) :
         LET dup == \E j \in 1..(x - 1) : TargetKey(Planned[j]) = TargetKey(Planned[x])
         IN  IF dup /\ ~pConfig.overwrite
             THEN Planned[x].status = ERROR /\ Planned[x].errorMessage = ConflictMessage
             ELSE Planned[x].status = PENDING /\ Planned[x].errorMessage = undefined

\* C2 witness: three holders of one key without overwrite: the first Pending,
\* the second and the third Error
C2_Witness ==
    /\ ppc = "returned"
    /\ ~pConfig.overwrite
    /\ Len(ret) = 3
    /\ TargetKey(ret[1]) = TargetKey(ret[2])
    /\ TargetKey(ret[2]) = TargetKey(ret[3])
    /\ ret[1].status = PENDING
    /\ ret[2].status = ERROR
    /\ ret[3].status = ERROR

\* C3: in a plan produced with overwrite = false no two Pending (or Success)
\* entries have the same case-insensitive target key.
C3_PendingKeysUnique ==
    ppc = "returned" /\ ~pConfig.overwrite =>
      \A x, j \in 1..Len(ret) :
         /\ x # j
         /\ ret[x].status \in {PENDING, SUCCESS}
         /\ ret[j].status \in {PENDING, SUCCESS}
         => toLowerCase(ret[x].newName \o ret[x].extension)
              # toLowerCase(ret[j].newName \o ret[j].extension)

\* C3 witness: a plan without overwrite in which two entries are Pending and a
\* third, a duplicate of one of them, is not
C3_Witness ==
    /\ ppc = "returned"
    /\ ~pConfig.overwrite
    /\ Len(ret) = 3
    /\ Cardinality({x \in 1..3 : ret[x].status = PENDING}) = 2
    /\ \E x, j \in 1..3 : x < j /\ TargetKey(ret[x]) = TargetKey(ret[j])

\* C4: two entries collide exactly when their full target names are equal
\* after lower-casing: names that differ only in letter case collide (the later
\* one is Error), and an entry is never Error because of an entry that shares
\* its newName but not its extension.
C4_CollideOnLowercasedFullName ==
    ppc = "returned" /\ ~pConfig.overwrite =>
      \A j \in 1..Len(ret) :
         /\ \A x \in 1..(j - 1) :
               toLowerCase(fullNewName(ret[x])) = toLowerCase(fullNewName(ret[j]))
                  => ret[j].status = ERROR
         /\ ret[j].status = ERROR =>
               \E x \in 1..(j - 1) :
                  /\ toLowerCase(ret[x].newName) = toLowerCase(ret[j].newName)
                  /\ toLowerCase(ret[x].extension) = toLowerCase(ret[j].extension)
         /\ (\A x \in 1..(j - 1) :
                toLowerCase(ret[x].extension) # toLowerCase(ret[j].extension))
               => ret[j].status = PENDING

\* C4 witness: pattern {name} over a.jpg, a.png, A.jpg: a.png shares its
\* newName with a.jpg and is Pending, A.jpg differs from a.jpg only in case and
\* is Error
C4_Witness ==
    /\ ppc = "returned"
    /\ ~pConfig.overwrite
    /\ Len(ret) = 3
    /\ ret[1].newName = <<"a">> /\ ret[1].extension = JPG /\ ret[1].status = PENDING
    /\ ret[2].newName = <<"a">> /\ ret[2].extension = PNG /\ ret[2].status = PENDING
    /\ ret[3].newName = <<"A">> /\ ret[3].extension = JPG /\ ret[3].status = ERROR

\* C5: generatePreview returns one planned entry per input entry, in the input's
\* order, every status is Pending or Error, and the Pending and the Error
\* entries add up to the number of input entries.
C5_OnePlannedEntryPerEntry ==
    ppc = "returned" =>
      /\ Len(ret) = Len(pFiles)
      /\ \A x \in 1..Len(ret) :
            /\ ret[x].id = pFiles[x].id
            /\ ret[x].originalName = pFiles[x].originalName
            /\ ret[x].extension = pFiles[x].extension
            /\ ret[x].status \in {PENDING, ERROR}
      /\ Cardinality({x \in 1..Len(ret) : ret[x].status = PENDING})
           + Cardinality({x \in 1..Len(ret) : ret[x].status = ERROR}) = Len(pFiles)

\* C5 witness: a plan of three entries with a Pending and an Error entry
C5_Witness ==
    /\ ppc = "returned"
    /\ Len(pFiles) = 3
    /\ \E x, j \in 1..Len(ret) : ret[x].status = PENDING /\ ret[j].status = ERROR

\* the newName and status sequences of a plan
NamesAndStatuses(plan) ==
    [x \in 1..Len(plan) |-> <<plan[x].newName, plan[x].status, plan[x].errorMessage>>]

\* C6: planning is deterministic and carries no state over: an invocation
\* starts its loop with counter = startNumber, an empty conflict set and an
\* empty result whatever ran before, and an invocation with the (entries,
\* config) of a kept earlier one returns the same newName and status sequences.
C6_PlanningIsPure ==
    /\ ppc = "loop" /\ pos = 0 =>
          /\ loc.counter = pConfig.startNumber
          /\ loc.usedNames = {}
          /\ loc.result = <<>>
    /\ ppc = "returned" /\ ref.kept /\ ref.files = pFiles /\ ref.config = pConfig =>
          NamesAndStatuses(ret) = NamesAndStatuses(ref.plan)

\* C6 witness: the kept invocation repeated after other invocations, returning
\* a plan with a conflict in it
C6_Witness ==
    /\ ppc = "returned"
    /\ ref.kept /\ between
    /\ ref.files = pFiles /\ ref.config = pConfig
    /\ Len(ret) = 3
    /\ ret[2].status = ERROR


(***************************************************************************)
(* Spec: a session of the App.  Every handler is one step per await; the   *)
(* effect that follows a render whose files, config or isProcessing        *)
(* changed (effectDue) runs before anything else does.                     *)
(***************************************************************************)
\* real runs in a session (dry runs, which leave nothing behind, are not
\* counted)
MaxRuns == 1

\* input events of the configuration panel in a session
MaxEdits == 2

\* clicks on the open-folder button in a session
MaxScans == 2

\* storage calls the environment rejects in a session
MaxFailures == 1

total == Len(queue)

\* the entry the loop is at
file == queue[i + 1]

\* the first index at or after from whose entry is not skipped by
\* if (file.status !== FileStatus.ERROR), or the list's length
RECURSIVE NextAttempt(_, _)
NextAttempt(q, from) ==
    IF from >= Len(q) THEN Len(q)
    ELSE IF q[from + 1].status # ERROR THEN from
    ELSE NextAttempt(q, from + 1)

\* handleRename from the top of iteration from up to its next await: the
\* skipped entries only move the progress; the first entry that is not skipped
\* enters executeRename, which returns at once or awaits getFile; after the
\* last entry setIsProcessing(false)
Resume(q, cfg, from, shown) ==
    LET j == NextAttempt(q, from)
    IN  /\ i' = j
        /\ progress' = IF j > from THEN ProgressAfter(j - 1, Len(q)) ELSE shown
        /\ IF j = Len(q)
           THEN /\ isProcessing' = FALSE
                /\ pc' = "idle"
                /\ ended' = "real"
                /\ effectDue' = TRUE
           ELSE /\ isProcessing' = TRUE
                /\ pc' = IF IsNoOp(q[j + 1], cfg) THEN "return" ELSE "getFile"
                /\ ended' = "none"
                /\ effectDue' = ~isProcessing

\* the success updater followed by another pass over the same entry
ResolvedRepeats ==
    /\ processedFiles' = SetSuccess(processedFiles, i)
    /\ outcome' = [outcome EXCEPT ![i + 1] = SUCCESS]
    /\ Resume(queue, runConfig, i, ProgressAfter(i, total))

\* the success updater followed by a jump over the next entry
ResolvedSkipsNext ==
    /\ processedFiles' = SetSuccess(processedFiles, i)
    /\ outcome' = [outcome EXCEPT ![i + 1] = SUCCESS]
    /\ Resume(queue, runConfig, i + 2, ProgressAfter(i, total))

\* the awaited executeRename resolved: the success updater, the progress, and
\* on to the next entry
Resolved ==
    /\ processedFiles' = SetSuccess(processedFiles, i)
    /\ outcome' = [outcome EXCEPT ![i + 1] = SUCCESS]
    /\ Resume(queue, runConfig, i + 1, ProgressAfter(i, total))

\* the failure updater followed by a break out of the loop
RejectedEndsRun ==
    /\ processedFiles' = SetError(processedFiles, i)
    /\ outcome' = [outcome EXCEPT ![i + 1] = ERROR]
    /\ Resume(queue, runConfig, total, ProgressAfter(i, total))

\* the awaited executeRename rejected: the failure updater, the progress, and
\* on to the next entry
Rejected ==
    /\ processedFiles' = SetError(processedFiles, i)
    /\ outcome' = [outcome EXCEPT ![i + 1] = ERROR]
    /\ Resume(queue, runConfig, i + 1, ProgressAfter(i, total))

\* a storage operation issued for the entry at index
Op(index, name, target) == [index |-> index, op |-> name, target |-> target]

\* a failure of the environment (permission revoked, quota, decoding error)
Injected ==
    /\ nFails < MaxFailures
    /\ nFails' = nFails + 1

Init ==
    /\ AppInit
    /\ pFiles = <<>>
    /\ pConfig = DefaultConfig
    /\ loc = [usedNames |-> {}, counter |-> 0, result |-> <<>>]
    /\ pos = 0
    /\ ppc = "call"
    /\ ret = <<>>
    /\ ref = NoRef
    /\ between = FALSE

\* an input event of the configuration panel: setConfig({ ...config, field })
setConfig ==
    /\ ~effectDue
    /\ nEdits < MaxEdits
    /\ \E c \in EditedConfigs(config) : config' = c
    /\ nEdits' = nEdits + 1
    /\ effectDue' = TRUE
    /\ ended' = "none"
    /\ UNCHANGED <<files, processedFiles, dirHandle, isProcessing, progress>>
    /\ UNCHANGED <<storageVars, runVars, ops, outcome, atStart, nRuns, nScans, scanOutcome, nFails>>
    /\ UNCHANGED planVars

\* what window.showDirectoryPicker can do: it is missing, the user cancels,
\* the permission is denied, or a directory is picked
PickerOutcomes == {"unsupported", "AbortError", "NotAllowedError", "picked"}

Returned(fs, handle) == [threw |-> FALSE, files |-> fs, dirHandle |-> handle]
Thrown == [threw |-> TRUE, files |-> <<>>, dirHandle |-> null]

\* scanDirectory(): the results it can resolve with, or that it throws
scanDirectory(d, scanNo, picker) ==
    IF picker = "unsupported" THEN {Thrown}
    ELSE IF picker = "picked" THEN { Returned(l, RootDir) : l \in ScanResults(d, scanNo) }
    ELSE IF picker = "AbortError" THEN {Returned(<<>>, null)}
    ELSE {Thrown}

\* the handler applying whatever scanDirectory resolved with
handleDirectorySelectUnguarded ==
    /\ ~effectDue
    /\ nScans < MaxScans
    /\ nScans' = nScans + 1
    /\ \E picker \in PickerOutcomes :
         \E result \in scanDirectory(disk, nScans + 1, picker) :
            /\ scanOutcome' = picker
            /\ IF ~result.threw
               THEN /\ dirHandle' = result.dirHandle
                    /\ files' = result.files
                    /\ processedFiles' = <<>>
                    /\ progress' = NoProgress
                    /\ handles' = [id \in { result.files[k].id : k \in 1..Len(result.files) }
                                          \cup (IF pc = "idle" THEN {}
                                                ELSE { queue[k].id : k \in 1..Len(queue) }) |->
                                     IF id \in DOMAIN handles THEN handles[id] ELSE id[2]]
                    /\ effectDue' = TRUE
                    /\ ended' = "none"
               ELSE UNCHANGED <<files, processedFiles, dirHandle, progress, handles,
                                effectDue, ended>>
    /\ UNCHANGED <<isProcessing, config, disk, hasMove, runVars>>
    /\ UNCHANGED <<ops, outcome, atStart, nRuns, nEdits, nFails>>
    /\ UNCHANGED planVars

\* the open-folder button (never disabled), up to the end of the scan: the
\* result is applied if (result.dirHandle); the user's cancel resolves with
\* dirHandle: null and changes nothing; a throw is caught (console.error,
\* alert) and changes nothing
handleDirectorySelect ==
    /\ ~effectDue
    /\ nScans < MaxScans
    /\ nScans' = nScans + 1
    /\ \E picker \in PickerOutcomes :
         \E result \in scanDirectory(disk, nScans + 1, picker) :
            /\ scanOutcome' = picker
            /\ IF ~result.threw /\ result.dirHandle # null
               THEN /\ dirHandle' = result.dirHandle
                    /\ files' = result.files
                    /\ processedFiles' = <<>>
                    /\ progress' = NoProgress
                    /\ handles' = [id \in { result.files[k].id : k \in 1..Len(result.files) }
                                          \cup (IF pc = "idle" THEN {}
                                                ELSE { queue[k].id : k \in 1..Len(queue) }) |->
                                     IF id \in DOMAIN handles THEN handles[id] ELSE id[2]]
                    /\ effectDue' = TRUE
                    /\ ended' = "none"
               ELSE UNCHANGED <<files, processedFiles, dirHandle, progress, handles,
                                effectDue, ended>>
    /\ UNCHANGED <<isProcessing, config, disk, hasMove, runVars>>
    /\ UNCHANGED <<ops, outcome, atStart, nRuns, nEdits, nFails>>
    /\ UNCHANGED planVars

\* the effect without the isProcessing test: it plans whenever there are files
refreshPreviewWhileProcessing ==
    /\ effectDue
    /\ effectDue' = FALSE
    /\ processedFiles' = IF files # <<>>
                         THEN generatePreview(files, config)
                         ELSE processedFiles
    /\ UNCHANGED <<files, dirHandle, isProcessing, progress, config>>
    /\ UNCHANGED <<storageVars, runVars, observerVars>>
    /\ UNCHANGED planVars

\* useEffect(() => refreshPreview(), [refreshPreview]) after a render in which
\* files, config or isProcessing changed
refreshPreview ==
    /\ effectDue
    /\ effectDue' = FALSE
    /\ processedFiles' = IF files # <<>> /\ ~isProcessing
                         THEN generatePreview(files, config)
                         ELSE processedFiles
    /\ UNCHANGED <<files, dirHandle, isProcessing, progress, config>>
    /\ UNCHANGED <<storageVars, runVars, observerVars>>
    /\ UNCHANGED planVars

\* the dry-run branch without its return: the timer is set and the handler
\* goes on into the real run
handleRenameDryRunFallsThrough ==
    /\ ~effectDue
    /\ files # <<>> /\ ~isProcessing
    /\ nRuns < MaxRuns
    /\ config.dryRun
    /\ dirHandle # null
    /\ dryTimer' = TRUE
    /\ queue' = processedFiles
    /\ runConfig' = config
    /\ Resume(processedFiles, config, 0, NoProgress)
    /\ atStart' = [files |-> files, config |-> config, plan |-> processedFiles,
                   disk |-> disk]
    /\ ops' = <<>>
    /\ outcome' = [k \in 1..Len(processedFiles) |-> "none"]
    /\ nRuns' = nRuns + 1
    /\ UNCHANGED <<files, processedFiles, dirHandle, config>>
    /\ UNCHANGED <<storageVars, fileContent>>
    /\ UNCHANGED <<nEdits, nScans, scanOutcome, nFails>>
    /\ UNCHANGED planVars

\* the execute button (disabled while files is empty or isProcessing) with
\* config.dryRun: setIsProcessing(true) and a 500 ms timer
handleRenameDryRun ==
    /\ ~effectDue
    /\ files # <<>> /\ ~isProcessing
    /\ config.dryRun
    /\ isProcessing' = TRUE
    /\ dryTimer' = TRUE
    /\ effectDue' = TRUE
    /\ ended' = "none"
    /\ atStart' = [files |-> files, config |-> config, plan |-> processedFiles,
                   disk |-> disk]
    /\ ops' = <<>>
    /\ outcome' = <<>>
    /\ UNCHANGED <<files, processedFiles, dirHandle, progress, config>>
    /\ UNCHANGED <<storageVars, pc, i, queue, runConfig, fileContent>>
    /\ UNCHANGED <<nRuns, nEdits, nScans, scanOutcome, nFails>>
    /\ UNCHANGED planVars

\* setTimeout(() => setIsProcessing(false), 500)
dryRunTimeout ==
    /\ ~effectDue
    /\ dryTimer
    /\ dryTimer' = FALSE
    /\ isProcessing' = FALSE
    /\ effectDue' = isProcessing
    /\ ended' = "dry"
    /\ UNCHANGED <<files, processedFiles, dirHandle, progress, config>>
    /\ UNCHANGED <<storageVars, pc, i, queue, runConfig, fileContent>>
    /\ UNCHANGED <<ops, outcome, atStart, nRuns, nEdits, nScans, scanOutcome, nFails>>
    /\ UNCHANGED planVars

\* the execute button left enabled while isProcessing
handleRenameNotDisabled ==
    /\ ~effectDue
    /\ files # <<>>
    /\ nRuns < MaxRuns
    /\ ~config.dryRun
    /\ dirHandle # null
    /\ queue' = processedFiles
    /\ runConfig' = config
    /\ Resume(processedFiles, config, 0, NoProgress)
    /\ atStart' = [files |-> files, config |-> config, plan |-> processedFiles,
                   disk |-> disk]
    /\ ops' = <<>>
    /\ outcome' = [k \in 1..Len(processedFiles) |-> "none"]
    /\ nRuns' = nRuns + 1
    /\ UNCHANGED <<files, processedFiles, dirHandle, config>>
    /\ UNCHANGED <<storageVars, fileContent, dryTimer>>
    /\ UNCHANGED <<nEdits, nScans, scanOutcome, nFails>>
    /\ UNCHANGED planVars

\* the execute button without dryRun, up to the first await: the handler's
\* closure holds the processedFiles, config and dirHandle of the render it was
\* created in (a null dirHandle would alert and return: with files non-empty
\* it is never null)
handleRename ==
    /\ ~effectDue
    /\ files # <<>> /\ ~isProcessing
    /\ nRuns < MaxRuns
    /\ ~config.dryRun
    /\ dirHandle # null
    /\ queue' = processedFiles
    /\ runConfig' = config
    /\ Resume(processedFiles, config, 0, NoProgress)
    /\ atStart' = [files |-> files, config |-> config, plan |-> processedFiles,
                   disk |-> disk]
    /\ ops' = <<>>
    /\ outcome' = [k \in 1..Len(processedFiles) |-> "none"]
    /\ nRuns' = nRuns + 1
    /\ UNCHANGED <<files, processedFiles, dirHandle, config>>
    /\ UNCHANGED <<storageVars, fileContent, dryTimer>>
    /\ UNCHANGED <<nEdits, nScans, scanOutcome, nFails>>
    /\ UNCHANGED planVars

\* await renamer.executeRename(...) of an entry that executeRename returned
\* from at once
executeRenameReturn ==
    /\ ~effectDue
    /\ pc = "return"
    /\ Resolved
    /\ UNCHANGED <<files, dirHandle, config>>
    /\ UNCHANGED <<storageVars, queue, runConfig, fileContent, dryTimer>>
    /\ UNCHANGED <<ops, atStart, nRuns, nEdits, nScans, scanOutcome, nFails>>
    /\ UNCHANGED planVars

\* await file.handle.getFile(): rejects when the file the handle names is gone
getFile ==
    /\ ~effectDue
    /\ pc = "getFile"
    /\ ops' = Append(ops, Op(i, "getFile", handles[file.id]))
    /\ \/ /\ handles[file.id] \in DOMAIN disk
          /\ fileContent' = disk[handles[file.id]]
          /\ pc' = IF runConfig.enableResize THEN "shouldResize"
                   ELSE IF UsesMove(runConfig) THEN "move"
                   ELSE "getFileHandle"
          /\ UNCHANGED <<processedFiles, isProcessing, progress, effectDue>>
          /\ UNCHANGED <<i, outcome, ended, nFails>>
       \/ /\ handles[file.id] \notin DOMAIN disk
          /\ Rejected
          /\ UNCHANGED <<fileContent, nFails>>
       \/ /\ handles[file.id] \in DOMAIN disk
          /\ Injected
          /\ Rejected
          /\ UNCHANGED fileContent
    /\ UNCHANGED <<files, dirHandle, config>>
    /\ UNCHANGED <<storageVars, queue, runConfig, dryTimer>>
    /\ UNCHANGED <<atStart, nRuns, nEdits, nScans, scanOutcome>>
    /\ UNCHANGED planVars

\* shouldResize resolving img.width >= targetWidth
shouldResizeAtLeast ==
    /\ ~effectDue
    /\ pc = "shouldResize"
    /\ ops' = Append(ops, Op(i, "read", handles[file.id]))
    /\ \/ /\ pc' = IF fileContent.width >= runConfig.resizeWidth
                   THEN "resizeImage" ELSE "getFileHandle"
          /\ UNCHANGED <<processedFiles, isProcessing, progress, effectDue>>
          /\ UNCHANGED <<i, outcome, ended, nFails>>
       \/ /\ Injected
          /\ Rejected
    /\ UNCHANGED <<files, dirHandle, config>>
    /\ UNCHANGED <<storageVars, queue, runConfig, fileContent, dryTimer>>
    /\ UNCHANGED <<atStart, nRuns, nEdits, nScans, scanOutcome>>
    /\ UNCHANGED planVars

\* await resizer.shouldResize(originalFile, config.resizeWidth): reads the
\* file and resolves img.width > targetWidth, or rejects
shouldResize ==
    /\ ~effectDue
    /\ pc = "shouldResize"
    /\ ops' = Append(ops, Op(i, "read", handles[file.id]))
    /\ \/ /\ pc' = IF fileContent.width > runConfig.resizeWidth
                   THEN "resizeImage" ELSE "getFileHandle"
          /\ UNCHANGED <<processedFiles, isProcessing, progress, effectDue>>
          /\ UNCHANGED <<i, outcome, ended, nFails>>
       \/ /\ Injected
          /\ Rejected
    /\ UNCHANGED <<files, dirHandle, config>>
    /\ UNCHANGED <<storageVars, queue, runConfig, fileContent, dryTimer>>
    /\ UNCHANGED <<atStart, nRuns, nEdits, nScans, scanOutcome>>
    /\ UNCHANGED planVars

\* fileContent = await resizer.resizeImage(originalFile, width, quality)
resizeImage ==
    /\ ~effectDue
    /\ pc = "resizeImage"
    /\ ops' = Append(ops, Op(i, "read", handles[file.id]))
    /\ \/ /\ fileContent' = Resized(fileContent, runConfig.resizeWidth)
          /\ pc' = "getFileHandle"
          /\ UNCHANGED <<processedFiles, isProcessing, progress, effectDue>>
          /\ UNCHANGED <<i, outcome, ended, nFails>>
       \/ /\ Injected
          /\ Rejected
          /\ UNCHANGED fileContent
    /\ UNCHANGED <<files, dirHandle, config>>
    /\ UNCHANGED <<storageVars, queue, runConfig, dryTimer>>
    /\ UNCHANGED <<atStart, nRuns, nEdits, nScans, scanOutcome>>
    /\ UNCHANGED planVars

\* await file.handle.move(fullNewName): the file the handle names takes the
\* new name and the handle follows it; whether a file already at that name is
\* replaced or the call rejects is the browser's choice
move ==
    /\ ~effectDue
    /\ pc = "move"
    /\ ops' = Append(ops, Op(i, "move", fullNewName(file)))
    /\ \/ /\ handles[file.id] \in DOMAIN disk
          /\ disk' = Put(Remove(disk, handles[file.id]), fullNewName(file),
                         disk[handles[file.id]])
          /\ handles' = [handles EXCEPT ![file.id] = fullNewName(file)]
          /\ Resolved
          /\ UNCHANGED nFails
       \/ /\ \/ handles[file.id] \notin DOMAIN disk
             \/ fullNewName(file) \in DOMAIN disk
          /\ Rejected
          /\ UNCHANGED <<disk, handles, nFails>>
       \/ /\ handles[file.id] \in DOMAIN disk
          /\ fullNewName(file) \notin DOMAIN disk
          /\ Injected
          /\ Rejected
          /\ UNCHANGED <<disk, handles>>
    /\ UNCHANGED <<files, dirHandle, config>>
    /\ UNCHANGED <<hasMove, queue, runConfig, fileContent, dryTimer>>
    /\ UNCHANGED <<atStart, nRuns, nEdits, nScans, scanOutcome>>
    /\ UNCHANGED planVars

\* await dirHandle.getFileHandle(targetFileName, { create: true }): an absent
\* target is created empty
getFileHandle ==
    /\ ~effectDue
    /\ pc = "getFileHandle"
    /\ ops' = Append(ops, Op(i, "getFileHandle", targetFileName(file, runConfig)))
    /\ \/ /\ disk' = IF targetFileName(file, runConfig) \in DOMAIN disk THEN disk
                     ELSE Put(disk, targetFileName(file, runConfig), EmptyFile)
          /\ pc' = "createWritable"
          /\ UNCHANGED <<processedFiles, isProcessing, progress, effectDue>>
          /\ UNCHANGED <<i, outcome, ended, nFails>>
       \/ /\ Injected
          /\ Rejected
          /\ UNCHANGED disk
    /\ UNCHANGED <<files, dirHandle, config>>
    /\ UNCHANGED <<handles, hasMove, queue, runConfig, fileContent, dryTimer>>
    /\ UNCHANGED <<atStart, nRuns, nEdits, nScans, scanOutcome>>
    /\ UNCHANGED planVars

\* await newFileHandle.createWritable(): a stream onto a swap file, the
\* target is untouched until close
createWritable ==
    /\ ~effectDue
    /\ pc = "createWritable"
    /\ ops' = Append(ops, Op(i, "createWritable", targetFileName(file, runConfig)))
    /\ \/ /\ pc' = "write"
          /\ UNCHANGED <<processedFiles, isProcessing, progress, effectDue>>
          /\ UNCHANGED <<i, outcome, ended, nFails>>
       \/ /\ Injected
          /\ Rejected
    /\ UNCHANGED <<files, dirHandle, config>>
    /\ UNCHANGED <<storageVars, queue, runConfig, fileContent, dryTimer>>
    /\ UNCHANGED <<atStart, nRuns, nEdits, nScans, scanOutcome>>
    /\ UNCHANGED planVars

\* await writable.write(fileContent)
write ==
    /\ ~effectDue
    /\ pc = "write"
    /\ ops' = Append(ops, Op(i, "write", targetFileName(file, runConfig)))
    /\ \/ /\ pc' = "close"
          /\ UNCHANGED <<processedFiles, isProcessing, progress, effectDue>>
          /\ UNCHANGED <<i, outcome, ended, nFails>>
       \/ /\ Injected
          /\ Rejected
    /\ UNCHANGED <<files, dirHandle, config>>
    /\ UNCHANGED <<storageVars, queue, runConfig, fileContent, dryTimer>>
    /\ UNCHANGED <<atStart, nRuns, nEdits, nScans, scanOutcome>>
    /\ UNCHANGED planVars

\* close followed by the removal of the original whatever keepOriginals and
\* the names are
closeAlwaysRemoves ==
    /\ ~effectDue
    /\ pc = "close"
    /\ ops' = Append(ops, Op(i, "close", targetFileName(file, runConfig)))
    /\ \/ /\ disk' = Put(disk, targetFileName(file, runConfig), Written(fileContent))
          /\ pc' = "removeEntry"
          /\ UNCHANGED <<processedFiles, isProcessing, progress, effectDue>>
          /\ UNCHANGED <<i, outcome, ended>>
          /\ UNCHANGED nFails
       \/ /\ Injected
          /\ Rejected
          /\ UNCHANGED disk
    /\ UNCHANGED <<files, dirHandle, config>>
    /\ UNCHANGED <<handles, hasMove, queue, runConfig, fileContent, dryTimer>>
    /\ UNCHANGED <<atStart, nRuns, nEdits, nScans, scanOutcome>>
    /\ UNCHANGED planVars

\* await writable.close(): the written bytes become the target's content;
\* then the original is removed unless it is kept or is the target itself
close ==
    /\ ~effectDue
    /\ pc = "close"
    /\ ops' = Append(ops, Op(i, "close", targetFileName(file, runConfig)))
    /\ \/ /\ disk' = Put(disk, targetFileName(file, runConfig), Written(fileContent))
          /\ IF ~runConfig.keepOriginals
                  /\ targetFileName(file, runConfig) # fullOldName(file)
             THEN /\ pc' = "removeEntry"
                  /\ UNCHANGED <<processedFiles, isProcessing, progress, effectDue>>
                  /\ UNCHANGED <<i, outcome, ended>>
             ELSE Resolved
          /\ UNCHANGED nFails
       \/ /\ Injected
          /\ Rejected
          /\ UNCHANGED disk
    /\ UNCHANGED <<files, dirHandle, config>>
    /\ UNCHANGED <<handles, hasMove, queue, runConfig, fileContent, dryTimer>>
    /\ UNCHANGED <<atStart, nRuns, nEdits, nScans, scanOutcome>>
    /\ UNCHANGED planVars

\* await dirHandle.removeEntry(fullOldName): rejects when no such file
removeEntry ==
    /\ ~effectDue
    /\ pc = "removeEntry"
    /\ ops' = Append(ops, Op(i, "removeEntry", fullOldName(file)))
    /\ \/ /\ fullOldName(file) \in DOMAIN disk
          /\ disk' = Remove(disk, fullOldName(file))
          /\ Resolved
          /\ UNCHANGED nFails
       \/ /\ fullOldName(file) \notin DOMAIN disk
          /\ Rejected
          /\ UNCHANGED <<disk, nFails>>
       \/ /\ fullOldName(file) \in DOMAIN disk
          /\ Injected
          /\ Rejected
          /\ UNCHANGED disk
    /\ UNCHANGED <<files, dirHandle, config>>
    /\ UNCHANGED <<handles, hasMove, queue, runConfig, fileContent, dryTimer>>
    /\ UNCHANGED <<atStart, nRuns, nEdits, nScans, scanOutcome>>
    /\ UNCHANGED planVars

Next ==
    \/ setConfig
    \/ handleDirectorySelect
    \/ refreshPreview
    \/ handleRenameDryRun
    \/ dryRunTimeout
    \/ handleRename
    \/ executeRenameReturn
    \/ getFile
    \/ shouldResize
    \/ resizeImage
    \/ move
    \/ getFileHandle
    \/ createWritable
    \/ write
    \/ close
    \/ removeEntry

Spec == Init /\ [][Next]_vars

(***************************************************************************)
(* Claims about the Executor (checked under Spec).                         *)
(***************************************************************************)
\* a run of handleRename's loop is in flight
Running == pc # "idle"

\* the state in which the run has just ended: setIsProcessing(false) is done
\* and the render's effect has not run yet
RunEnded == ended = "real" /\ effectDue

\* the storage operations issued for the entry at 1-based position k
OpsOf(log, k) == { n \in 1..Len(log) : log[n].index = k - 1 }

StatusAt(list, k) == IF k <= Len(list) THEN list[k].status ELSE undefined

\* the no-op entries of the run: planned without conflict, nothing to rename
\* and nothing to resize
NoOpEntries(q, cfg) ==
    { k \in 1..Len(q) : q[k].status # ERROR /\ IsNoOp(q[k], cfg) }

C8_PlannedErrorNeverAttemptedStaysError ==
    \A k \in 1..Len(queue) :
       (Running \/ ended = "real") /\ queue[k].status = ERROR =>
          /\ OpsOf(ops, k) = {}
          /\ outcome[k] = "none"
          /\ RunEnded =>
               /\ StatusAt(processedFiles, k) = ERROR
               /\ processedFiles[k].errorMessage = ConflictMessage

\* the step in which the execution of the entry at position i + 1 fails
FailureStep == Running /\ i < total /\ outcome[i + 1] = "none" /\ outcome'[i + 1] = ERROR

\* C9: continue-on-error.  When executing the entry at position k fails, at
\* whatever step, the failure marks position k Error with the failure message
\* and changes no other position's status; the loop goes on to the first later
\* entry that is not Error in the plan, and ends the run only when there is
\* none; storage operations are issued in the order of the positions and only
\* for entries that are not Error in the plan; and when the run ends every
\* entry that is not Error in the plan has an outcome of its own.
C9_ContinueOnError ==
    [][ /\ FailureStep =>
             /\ StatusAt(processedFiles', i + 1) = ERROR
             /\ processedFiles'[i + 1].errorMessage = FailedMessage
             /\ \A k \in (1..Len(processedFiles')) \ {i + 1} :
                   StatusAt(processedFiles', k) = StatusAt(processedFiles, k)
             /\ queue' = queue
             /\ i' > i
             /\ \A k \in (i + 2)..i' : queue[k].status = ERROR
             /\ IF i' < total
                THEN Running' /\ isProcessing' /\ queue[i' + 1].status # ERROR
                ELSE ~Running' /\ i' = total
        /\ \A m, n \in 1..Len(ops') :
              /\ m < n => ops'[m].index <= ops'[n].index
              /\ queue'[ops'[n].index + 1].status # ERROR
        /\ ended' = "real" =>
              \A k \in 1..Len(queue') :
                 queue'[k].status # ERROR => outcome'[k] \in {SUCCESS, ERROR} ]_vars

\* C9 witness: a run over three entries has ended; the write of the first one
\* failed, the second one was Error in the plan and was skipped, the third one
\* was executed and succeeded
C9_Witness ==
    /\ RunEnded
    /\ Len(queue) = 3
    /\ \E n \in OpsOf(ops, 1) : ops[n].op = "write"
    /\ \A n \in OpsOf(ops, 1) : ops[n].op # "close"
    /\ outcome = <<ERROR, "none", SUCCESS>>
    /\ queue[2].status = ERROR
    /\ processedFiles[1].status = ERROR
    /\ processedFiles[1].errorMessage = FailedMessage
    /\ processedFiles[3].status = SUCCESS

\* a dry run is in its 500 ms window, or has finished with no event since
DryRun == dryTimer \/ ended = "dry"

\* the dry run has finished and the render's effect has run
DryRunDone == ended = "dry" /\ ~effectDue

\* C10 as stated: with dryRun, triggering execution issues no storage
\* operation, and after the dry run has finished the newName and the status of
\* every planned entry are what they were before it was triggered.
C10_DryRunLeavesPlanAsItWas ==
    /\ DryRun => ops = <<>> /\ ~Running /\ disk = atStart.disk
    /\ DryRunDone =>
          NamesAndStatuses(processedFiles) = NamesAndStatuses(atStart.plan)

\* C10 amended: with dryRun, triggering execution issues no storage operation
\* and the dry run writes no status; after it has finished the plan is the one
\* the Planner yields for the entries and the config as they are then, so the
\* newName and the status of every planned entry are what they were before
\* the trigger whenever neither the config nor the entry set has changed since.
C10_DryRunOnlyReplans ==
    /\ DryRun => ops = <<>> /\ ~Running /\ disk = atStart.disk
    /\ dryTimer => processedFiles \in {atStart.plan, <<>>}
    /\ DryRunDone => processedFiles = generatePreview(files, config)
    /\ DryRunDone /\ files = atStart.files /\ config = atStart.config =>
          NamesAndStatuses(processedFiles) = NamesAndStatuses(atStart.plan)

\* C10 witness: a dry run over a plan with a Pending and an Error entry has
\* finished, nothing changed meanwhile, and the plan is as it was
C10_Witness ==
    /\ DryRunDone
    /\ files = atStart.files /\ config = atStart.config
    /\ Len(processedFiles) = 3
    /\ processedFiles = atStart.plan
    /\ processedFiles[1].status = PENDING
    /\ processedFiles[2].status = ERROR
    /\ disk = InitialDisk

\* the names executeRename works with for the entry the loop is at
OldName == fullOldName(file)
TargetName == targetFileName(file, runConfig)

\* a step of the copy-then-delete path (the reads before it included)
CopyStep ==
    /\ Running
    /\ pc \in {"getFile", "shouldResize", "resizeImage", "getFileHandle",
               "createWritable", "write", "close", "removeEntry"}
    /\ ~UsesMove(runConfig)

\* the operations issued so far for the entry at position k, in order
OpNamesOf(log, k) ==
    LET Sel(l) == SelectSeq(l, LAMBDA o : o.index = k - 1)
    IN  [n \in 1..Len(Sel(log)) |-> Sel(log)[n].op]

\* the last four operations of a sequence of operation names
LastFour(names) == SubSeq(names, Len(names) - 3, Len(names))

\* C11: in the copy-then-delete path the original is removed only by
\* removeEntry, which is issued only when keepOriginals is false and the final
\* name differs from the original name, and only after the target has been
\* created, written and committed; a step up to and including the commit,
\* failing or not, leaves the original present; and when the removal itself
\* fails the target holds the entry's content, the original remains, the entry
\* is Error and the batch goes on.
C11_RemoveOnlyAfterCommit ==
    [][ CopyStep =>
          /\ pc' = "removeEntry" /\ pc # "removeEntry" =>
                /\ ~runConfig.keepOriginals
                /\ TargetName # OldName
                /\ Len(OpNamesOf(ops', i + 1)) >= 4
                /\ LastFour(OpNamesOf(ops', i + 1))
                     = <<"getFileHandle", "createWritable", "write", "close">>
                /\ TargetName \in DOMAIN disk'
                /\ disk'[TargetName] = Written(fileContent)
          /\ pc # "removeEntry" /\ OldName \in DOMAIN disk =>
                /\ OldName \in DOMAIN disk'
                /\ FailureStep => disk'[OldName] = disk[OldName]
          /\ OldName \in DOMAIN disk /\ OldName \notin DOMAIN disk' =>
                /\ pc = "removeEntry"
                /\ outcome'[i + 1] = SUCCESS
          /\ pc = "removeEntry" /\ FailureStep =>
                /\ TargetName \in DOMAIN disk'
                /\ disk'[TargetName] = Written(fileContent)
                /\ OldName \in DOMAIN disk => OldName \in DOMAIN disk'
                                                /\ disk'[OldName] = disk[OldName]
                /\ StatusAt(processedFiles', i + 1) = ERROR
                /\ processedFiles'[i + 1].errorMessage = FailedMessage
                /\ i' > i
                /\ Running' \/ i' = total ]_vars

\* C11 witness: the removal of a.jpg failed after its copy image_001.jpg was
\* committed: both files hold a.jpg's bytes, the first entry is Error, and the
\* run went on to the second entry
C11_Witness ==
    /\ Running
    /\ i = 1
    /\ outcome[1] = ERROR
    /\ OpNamesOf(ops, 1)
         = <<"getFile", "getFileHandle", "createWritable", "write", "close", "removeEntry">>
    /\ FileName(<<"a">>, JPG) \in DOMAIN disk
    /\ disk[FileName(<<"a">>, JPG)].src = "A"
    /\ fullNewName(queue[1]) \in DOMAIN disk
    /\ disk[fullNewName(queue[1])].src = "A"
    /\ fullNewName(queue[1]) # FileName(<<"a">>, JPG)

\* a step of executeRename for the current entry under a configuration with
\* keepOriginals and enableResize both set
KeepResizedStep ==
    /\ Running
    /\ pc \notin {"return"}
    /\ runConfig.keepOriginals
    /\ runConfig.enableResize

\* C12: with keepOriginals and enableResize both set the final name is
\* newName + "_resized" + extension, it differs from the entry's original
\* file name, and no step of the entry writes over or removes the original;
\* in every other configuration the final name is newName + extension.
C12_ResizedNameNeverTheOriginal ==
    [][ /\ KeepResizedStep =>
            /\ TargetName = file.newName \o ResizedSuffix \o file.extension
            /\ TargetName # OldName
            /\ OldName \in DOMAIN disk =>
                  OldName \in DOMAIN disk' /\ disk'[OldName] = disk[OldName]
        /\ Running /\ pc # "return" /\ ~KeepResizedStep =>
            TargetName = file.newName \o file.extension ]_vars

\* what a file holds, its modification time left out
Bytes(c) == [src |-> c.src, width |-> c.width, resized |-> c.resized]

BytesOf(d) == [n \in DOMAIN d |-> Bytes(d[n])]

\* the configuration of the run asks for a plain rename
PlainRename == ~runConfig.enableResize /\ ~runConfig.keepOriginals

\* the step in which the execution of the entry at position i + 1 succeeds
SuccessStep == Running /\ i < total /\ outcome[i + 1] = "none" /\ outcome'[i + 1] = SUCCESS

\* the file the handle of the entry the loop is at is bound to: the original,
\* unless an earlier move through this handle took it elsewhere
Source == handles[file.id]

InFlight == Running \/ dryTimer

\* the step is the effect (refreshPreview) running
EffectStep == effectDue /\ ~effectDue'

\* the name the storage call o carries when it is issued for the planned
\* entry e under cfg (a read goes through the entry's handle and carries the
\* name of the file the handle is bound to)
NameFor(o, e, cfg) ==
    IF o.op \in {"getFile", "read"} THEN o.target
    ELSE IF o.op = "move" THEN fullNewName(e)
    ELSE IF o.op = "removeEntry" THEN fullOldName(e)
    ELSE targetFileName(e, cfg)

\* C14: while a run, real or dry, is in flight the effect does not plan and a
\* configuration edit changes neither the plan nor what the run works with:
\* the run's list and configuration are those captured at its start and
\* every storage call is for a name computed from them; once a real run has
\* ended and the effect has run, the plan is the Planner's for the entries and
\* the configuration as they are then.
C14_NoPlanningWhileInFlight ==
    [][ /\ InFlight => isProcessing
        /\ InFlight /\ EffectStep => processedFiles' = processedFiles
        /\ InFlight /\ config' # config =>
              /\ processedFiles' = processedFiles
              /\ queue' = queue /\ runConfig' = runConfig
        /\ Running =>
              /\ queue = atStart.plan /\ runConfig = atStart.config
              /\ queue' = queue /\ runConfig' = runConfig
              /\ \A n \in 1..Len(ops') :
                    ops'[n].target = NameFor(ops'[n], atStart.plan[ops'[n].index + 1],
                                             atStart.config)
        /\ ended' = "real" /\ ~effectDue' /\ files' # <<>> =>
              processedFiles' = generatePreview(files', config') ]_vars

\* C14 witness: the pattern was edited while the second entry of a real run
\* was executing, the effect has run, and the plan still carries the names the
\* run started with
C14_Witness ==
    /\ Running
    /\ i = 1
    /\ ~effectDue
    /\ config.pattern # runConfig.pattern
    /\ files = atStart.files
    /\ Len(processedFiles) = Len(queue)
    /\ \A k \in 1..Len(queue) : processedFiles[k].newName = queue[k].newName
    /\ generatePreview(files, config) # generatePreview(files, runConfig)

\* C15: for the whole of a run the entry set is the one the run started with
\* and the planned list keeps its length and its entries' identities, so that
\* the status recorded for a position sits on the entry executed at that
\* position.
C15_ScanDeferredUntilRunEnds ==
    Running =>
       /\ files = atStart.files
       /\ Len(processedFiles) = Len(queue)
       /\ \A k \in 1..Len(queue) :
             /\ processedFiles[k].id = queue[k].id
             /\ outcome[k] # "none" => processedFiles[k].status = outcome[k]

\* the step issues one storage call, for the entry the loop is at
IssuesOneCall ==
    /\ Running
    /\ i < total
    /\ Len(ops') = Len(ops) + 1
    /\ SubSeq(ops', 1, Len(ops)) = ops
    /\ ops'[Len(ops')].index = i
    /\ outcome[i + 1] = "none"

\* C16: storage calls are issued one at a time, each for the entry the loop
\* is at, which has no outcome yet; every earlier position has its outcome (or
\* was Error in the plan) before the loop moves on, the position never goes
\* back, the calls of a run are in the order of the positions, and storage
\* changes in no step but one that issues a call of the loop.
C16_SequentialOnlyWriter ==
    [][ /\ ops' # ops /\ ops' # <<>> => IssuesOneCall
        /\ disk' # disk => IssuesOneCall
        /\ Running /\ Running' => i' >= i
        /\ Running' =>
              \A k \in 1..i' : outcome'[k] # "none" \/ queue'[k].status = ERROR
        /\ \A m, n \in 1..Len(ops') : m < n => ops'[m].index <= ops'[n].index ]_vars

\* C16 witness: the first entry was copied and its original removed, and the
\* loop has issued the first call of the second entry
C16_Witness ==
    /\ Running
    /\ i = 1
    /\ outcome[1] = SUCCESS
    /\ outcome[2] = "none"
    /\ \E n \in OpsOf(ops, 1) : ops[n].op = "removeEntry"
    /\ OpNamesOf(ops, 2) = <<"getFile">>
    /\ disk # InitialDisk

\* progress p is at least progress q
AtLeast(p, q) == p.num * q.den >= q.num * p.den

\* C17: while a run is in flight progress changes only in a step that
\* completes an entry (with the skipped ones that follow it), its new value is
\* (position + 1) / total for the last position completed, it never
\* decreases, and it is 100% when the run ends.
C17_ProgressFollowsCompletedEntries ==
    [][ Running =>
          /\ progress' # progress =>
                /\ i' > i
                /\ progress' = ProgressAfter(i' - 1, total)
          /\ AtLeast(progress', progress)
          /\ ~Running' => progress'.num = 100 * progress'.den ]_vars

\* the file the entry the loop is at reads: what its handle is bound to holds
Original == disk[Source]

\* C18: shouldResize answers true exactly when the source is wider than
\* resizeWidth, so a source as wide or narrower is never resized and nothing
\* is ever written wider than its source; and with enableResize set and the
\* answer false the bytes committed to the target are the original's bytes.
C18_ResizeOnlyWiderElseSameBytes ==
    [][ Running /\ runConfig.enableResize /\ Source \in DOMAIN disk =>
          /\ pc = "shouldResize" /\ pc' \in {"resizeImage", "getFileHandle"} =>
                (pc' = "resizeImage" <=> Original.width > runConfig.resizeWidth)
          /\ pc = "close" /\ disk' # disk =>
                /\ disk'[TargetName].width <= Original.width
                /\ Original.width <= runConfig.resizeWidth =>
                      Bytes(disk'[TargetName]) = Bytes(Original)
                /\ Original.width > runConfig.resizeWidth =>
                      Bytes(disk'[TargetName])
                        = Bytes(Resized(Original, runConfig.resizeWidth)) ]_vars

\* C18 witness: with enableResize set, image_001.jpg, exactly as wide as resizeWidth,
\* was written to its target without a resize
C18_Witness ==
    /\ Running
    /\ i = 2
    /\ runConfig.enableResize
    /\ outcome[2] = SUCCESS
    /\ queue[2].originalName = EarlierFirst
    /\ atStart.disk[fullOldName(queue[2])].width = runConfig.resizeWidth
    /\ Len(OpNamesOf(ops, 2)) >= 6
    /\ SubSeq(OpNamesOf(ops, 2), 1, 6)
         = <<"getFile", "read", "getFileHandle", "createWritable", "write", "close">>
    /\ Bytes(disk[targetFileName(queue[2], runConfig)]) = Bytes(atStart.disk[fullOldName(queue[2])])

\* the step is a scan request that ended with the given picker outcome
ScanEndedWith(kinds) == nScans' = nScans + 1 /\ scanOutcome' \in kinds

\* the session: what the App holds and what the run and the storage are at
Session == <<files, processedFiles, dirHandle, progress, config, isProcessing,
             effectDue, disk, handles, runVars, ops, outcome>>

\* C19: a scan the user aborts makes scanDirectory resolve with an empty
\* result rather than throw, a denied or unsupported scan makes it throw, and
\* in either case the entries, the plan, the root handle and the progress are
\* what they were, no effect is scheduled (so nothing is planned) and no run
\* is started or disturbed.
C19_FailedScanChangesNothing ==
    [][ /\ \A r \in scanDirectory(disk, nScans + 1, "AbortError") :
              ~r.threw /\ r.files = <<>> /\ r.dirHandle = null
        /\ \A k \in {"NotAllowedError", "unsupported"} :
              \A r \in scanDirectory(disk, nScans + 1, k) : r.threw
        /\ ScanEndedWith({"AbortError", "NotAllowedError", "unsupported"}) =>
              Session' = Session ]_vars

\* C19 witness: a folder was opened and planned, and a second scan request
\* was aborted by the user: entries, plan, handle and progress are in place
C19_Witness ==
    /\ nScans = 2
    /\ scanOutcome = "AbortError"
    /\ files # <<>>
    /\ Len(processedFiles) = Len(files)
    /\ dirHandle = RootDir
    /\ ~effectDue

\* C20: in every step of a run the status at each position of the plan either
\* stays as it is or goes from Pending to Success, Error or Skipped; so a
\* status the run has set is not changed again and none goes back to Pending.
C20_StatusSetOnceFromPending ==
    [][ Running =>
          \A k \in 1..Len(queue) :
             StatusAt(processedFiles', k) # StatusAt(processedFiles, k) =>
                /\ StatusAt(processedFiles, k) = PENDING
                /\ StatusAt(processedFiles', k) \in {SUCCESS, ERROR, SKIPPED} ]_vars

\* C21: once a real run has ended, and as long as neither the configuration
\* nor the entry set has changed since it was started, every position keeps
\* the Success or Error status the run recorded for it.
C21_StatusesKeptAfterRun ==
    /\ ended = "real"
    /\ files = atStart.files
    /\ config = atStart.config
    => \A k \in 1..Len(outcome) :
          outcome[k] # "none" => StatusAt(processedFiles, k) = outcome[k]

(***************************************************************************)
(* Termination.  Every awaited storage or resize call settles, the 500 ms  *)
(* timer fires, and React runs a pending effect; the user is under no      *)
(* obligation to do anything.                                              *)
(***************************************************************************)
\* the effect that is due runs: the steps of refreshPreview are the steps in
\* which effectDue falls, and it is enabled exactly when effectDue holds
refreshPreviewRuns == effectDue /\ effectDue' = FALSE

Fairness ==
    /\ WF_effectDue(refreshPreviewRuns)
    /\ WF_vars(dryRunTimeout)
    /\ WF_vars(executeRenameReturn)
    /\ WF_vars(getFile)
    /\ WF_vars(shouldResize)
    /\ WF_vars(resizeImage)
    /\ WF_vars(move)
    /\ WF_vars(getFileHandle)
    /\ WF_vars(createWritable)
    /\ WF_vars(write)
    /\ WF_vars(close)
    /\ WF_vars(removeEntry)

FairSpec == Spec /\ Fairness

\* the number of executions the run started for the entry at position k: each
\* execution that is not a return at once opens with one getFile
Attempts(k) == Cardinality({ n \in OpsOf(ops, k) : ops[n].op = "getFile" })

\* the run has ended with every entry that was not Error in its plan executed
\* once and recorded Success or Error, and no other entry touched
EndedAllAttemptedOnce ==
    /\ ended = "real"
    /\ pc = "idle"
    /\ ~isProcessing
    /\ i = total
    /\ \A k \in 1..total :
          IF queue[k].status = ERROR
          THEN outcome[k] = "none" /\ OpsOf(ops, k) = {}
          ELSE /\ outcome[k] \in {SUCCESS, ERROR}
               /\ Attempts(k) = IF IsNoOp(queue[k], runConfig) THEN 0 ELSE 1

\* C22: every started run terminates.  A real run in flight leads to its end
\* with isProcessing false, each entry that was not Error in the plan executed
\* exactly once and recorded Success or Error; a dry run in flight leads to
\* its timer gone and isProcessing false.
C22_EveryRunTerminates ==
    /\ Running ~> EndedAllAttemptedOnce
    /\ dryTimer ~> (~dryTimer /\ ~isProcessing)

\* C22 witness: a real run over three entries has ended with all three
\* executed once and recorded Success
C22_Witness ==
    /\ EndedAllAttemptedOnce
    /\ ended = "real"
    /\ total = 3
    /\ \A k \in 1..3 : outcome[k] = SUCCESS /\ Attempts(k) = 1

\* a real run has ended that was planned with overwrite off and run with
\* keepOriginals and enableResize off, and in which no storage call failed
PlainRunEndedClean ==
    /\ ended = "real"
    /\ ~runConfig.overwrite
    /\ ~runConfig.keepOriginals
    /\ ~runConfig.enableResize
    /\ \A k \in 1..Len(queue) : queue[k].status # ERROR => outcome[k] = SUCCESS

\* C23: after such a run every entry that was not Error in the plan has the
\* bytes it held before the run stored under its target name, newName +
\* extension.
C23_ContentKeptUnderTargetName ==
    PlainRunEndedClean =>
       \A k \in 1..Len(queue) :
          queue[k].status # ERROR =>
             /\ fullNewName(queue[k]) \in DOMAIN disk
             /\ Bytes(disk[fullNewName(queue[k])])
                  = Bytes(atStart.disk[fullOldName(queue[k])])

\* the step starts a run: a real one, or the 500 ms window of a dry one
RunStarts == nRuns' = nRuns + 1 \/ (~dryTimer /\ dryTimer')

\* C24: at most one run is in flight.  A run, real or dry, starts only while
\* isProcessing is false and nothing is in flight; isProcessing is true
\* exactly while a run is in flight and falls only in the step that ends it;
\* a real run and a dry run's window never overlap, so the window's end never
\* clears isProcessing under a real run.
C24_OneRunInFlight ==
    [][ /\ RunStarts => ~isProcessing /\ ~InFlight
        /\ isProcessing <=> InFlight
        /\ ~(Running /\ dryTimer)
        /\ dryTimer /\ ~dryTimer' => ~Running /\ ~Running' /\ ~isProcessing'
        /\ isProcessing /\ ~isProcessing' =>
              \/ Running /\ ~Running' /\ ~dryTimer
              \/ dryTimer /\ ~dryTimer' /\ ~Running ]_vars

\* C24 witness: the 500 ms window of a dry run is open and the user has
\* already switched dryRun off: a click on the execute button would start a
\* real run, were the button not disabled by isProcessing
C24_Witness ==
    /\ dryTimer
    /\ isProcessing
    /\ ~Running
    /\ ~effectDue
    /\ ~config.dryRun
    /\ files # <<>>
    /\ dirHandle # null
    /\ nRuns < MaxRuns

====
